---------------------------- MODULE Spec2Model ----------------------------
(***************************************************************************)
(* Financial core of the charging-station model (src/tools/千站主文档.py):  *)
(* SingleStationModel, ProjectFinanceModel (cash flows, IRR bisection,     *)
(* NPV, Monte Carlo sensitivity sweep) and REITsModel.                     *)
(*                                                                         *)
(* Number representation.  The program computes in binary floating point;  *)
(* the model computes in exact integers and reduced fractions:             *)
(*   - money of the station model is held in yuan (integers);              *)
(*   - utilization_rate, price_spread, electricity_price and               *)
(*     maintenance_per_kwh are held in tenths, auxiliary_premium and       *)
(*     residual_value_rate in hundredths, reits_cap_rate and               *)
(*     reits_distribution_yield in thousandths;                            *)
(*   - a cash flow is held in units of 10^-4 of the program's cash unit    *)
(*     (the program divides yuan by 100000000; the model divides by        *)
(*     10000), so the tolerance 1e-6 is 1/100 of a model cash unit;        *)
(*   - a rate of the bisection is held on a grid of 1/RateScale, the       *)
(*     finite precision of the rate; (low + high) / 2 rounds down to the   *)
(*     grid;                                                               *)
(*   - the range of the floating-point type is scaled down to              *)
(*     [1/FloatMinInv, FloatMax/10): a power (1 + rate) ** i at or above   *)
(*     FloatMax/10 raises OverflowError, one below 1/FloatMinInv           *)
(*     underflows to 0.0 and the division by it raises ZeroDivisionError   *)
(*     (in the program: series of more than about 1000 entries);           *)
(*   - every other fraction (IRR heuristic, margins, payback, NPV) is an   *)
(*     exact reduced fraction [num, den] with den > 0.                     *)
(* The inputs drawn in Init are chosen so that every rescaling division    *)
(* is exact.                                                               *)
(***************************************************************************)
EXTENDS Integers, Sequences, FiniteSets, TLC

VARIABLES
    params,           \* the shared ModelParameters object: field name -> value
    pc,               \* position of the caller / of sensitivity_analysis
    cash_flows,       \* the series last returned by project_cash_flows (or the input of calculate_irr)
    ret,              \* outcome of the last finished operation
    n_simulations,    \* argument of sensitivity_analysis
    trial,            \* number of loop iterations of the sweep started so far
    results,          \* the accepted sample of the sweep
    original_params,  \* dict saved by sensitivity_analysis before the sweep
    pre_call,         \* snapshot of params taken when sensitivity_analysis was entered (observer)
    low, high, mid,   \* locals of calculate_irr (stepwise specification)
    iter,             \* number of bisection iterations finished
    loop_pc,          \* position of auto_refresh_loop
    mtime,            \* st_mtime of the parameter document
    has_last_check_time,  \* hasattr(check_file_modified, 'last_check_time')
    last_check_time,  \* check_file_modified.last_check_time
    user_mods,        \* modifications of the document made by the user so far
    calc_runs,        \* runs of the calculation started so far (observer, saturating)
    pending           \* a user modification no run has started after (observer)

vars == <<params, pc, cash_flows, ret, n_simulations, trial, results,
          original_params, pre_call, low, high, mid, iter,
          loop_pc, mtime, has_last_check_time, last_check_time,
          user_mods, calc_runs, pending>>

(***************************************************************************)
(* Bounds of the model.                                                    *)
(***************************************************************************)
MaxYears    == 3     \* longest project horizon / cash-flow series
MaxSims     == 2     \* largest n_simulations
RateUnit    == 2     \* grid points per 0.1 of rate
FloatMax    == 37    \* in tenths: powers at or above FloatMax / 10 overflow
FloatMinInv == 50    \* powers below 1 / FloatMinInv underflow to 0.0
MaxMods     == 3     \* most modifications of the document by the user
MaxRuns     == 4     \* calc_runs counts up to MaxRuns and stays there

(***************************************************************************)
(* Program constants.                                                      *)
(***************************************************************************)
max_iterations == 100
other_revenue  == 120000
WanYuan        == 10000      \* the literal 10000: yuan per unit of construction_cost
ToleranceInv   == 100        \* tolerance 1e-6 = 1/ToleranceInv model cash units
CashUnit       == 10000      \* yuan per model cash unit (the program's / 100000000)

UtilFloor      == 1          \* max(0.1, ...) in tenths
PriceFloor     == 2          \* max(0.2, ...) in tenths

None == [num |-> 0, den |-> 0]     \* Python's None (an undefined rate)
Inf  == [num |-> 1, den |-> 0]     \* float('inf')

\* an optional argument: absent (None) or given
NoneArg  == [is_none |-> TRUE]
Some(x)  == [is_none |-> FALSE, value |-> x]

RateScale == 10 * RateUnit
LowInit   == -9 * RateUnit     \* -0.9
HighInit  == 10 * RateUnit     \*  1.0

---------------------------------------------------------------------------
(* Exact arithmetic helpers.                                               *)

Abs(x) == IF x < 0 THEN -x ELSE x

RECURSIVE Pow(_, _)
Pow(b, e) == IF e = 0 THEN 1 ELSE b * Pow(b, e - 1)

RECURSIVE GCD(_, _)
GCD(a, b) == IF b = 0 THEN a ELSE GCD(b, a % b)

\* the reduced fraction n/d (d # 0), with a positive denominator
Rat(n, d) ==
    LET g == GCD(Abs(n), Abs(d))
        s == IF d < 0 THEN -1 ELSE 1
    IN  [num |-> s * (n \div g), den |-> s * (d \div g)]

Zero == [num |-> 0, den |-> 1]

RatLess(a, b) == a.num * b.den < b.num * a.den
RatLeq(a, b)  == a.num * b.den <= b.num * a.den

RECURSIVE SumSeq(_)
SumSeq(s) == IF s = <<>> THEN 0 ELSE Head(s) + SumSeq(Tail(s))

---------------------------------------------------------------------------
(* SingleStationModel                                                      *)

\* calculate_revenue: utilization_rate and price_spread are in tenths, so
\* the capacities are in tenths of kWh and service_revenue is rescaled by 100
calculate_revenue(p) ==
    LET daily_capacity_per_gun == p.gun_power * p.utilization_rate * p.daily_hours
        daily_capacity         == daily_capacity_per_gun * p.guns_per_station
        annual_charging        == daily_capacity * p.operating_days
        service_revenue        == (annual_charging * p.price_spread) \div 100
        auxiliary_revenue      == (service_revenue * p.auxiliary_premium) \div 100
    IN  [daily_capacity_per_gun_kwh |-> daily_capacity_per_gun,
         daily_capacity_kwh         |-> daily_capacity,
         annual_charging_kwh        |-> annual_charging,
         service_revenue            |-> service_revenue,
         auxiliary_revenue          |-> auxiliary_revenue,
         other_revenue              |-> other_revenue,
         total_revenue              |-> service_revenue + auxiliary_revenue + other_revenue]

\* the division by depreciation_years; a zero divisor raises ZeroDivisionError
AnnualDepreciation(net_investment, p) ==
    IF p.depreciation_years = 0
    THEN [raised |-> TRUE]
    ELSE [raised |-> FALSE,
          value  |-> ((net_investment * (100 - p.residual_value_rate)) \div 100)
                        \div p.depreciation_years]

\* calculate_costs: annual_charging_kwh arrives in tenths of kWh, the prices in tenths
calculate_costs(p, total_revenue, annual_charging_kwh) ==
    LET electricity_cost  == (annual_charging_kwh * p.electricity_price) \div 100
        maintenance_cost  == (annual_charging_kwh * p.maintenance_per_kwh) \div 100
        net_investment    == (p.construction_cost - p.subsidy_per_station) * WanYuan
        dep               == AnnualDepreciation(net_investment, p)
    IN  IF dep.raised
        THEN [raised |-> TRUE]
        ELSE [raised               |-> FALSE,
              electricity_cost     |-> electricity_cost,
              maintenance_cost     |-> maintenance_cost,
              labor_cost           |-> p.labor_cost,
              rent_cost            |-> p.rent_cost,
              other_operating_cost |-> p.other_operating_cost,
              annual_depreciation  |-> dep.value,
              total_cost           |-> electricity_cost + maintenance_cost + p.labor_cost
                                         + p.rent_cost + p.other_operating_cost + dep.value]

\* x / total_revenue if total_revenue > 0 else 0
Margin(x, total_revenue) ==
    IF total_revenue > 0 THEN Rat(x, total_revenue) ELSE Zero

\* net_investment / (net_profit / 10000) if net_profit > 0 else float('inf')
PaybackPeriod(net_investment, net_profit) ==
    IF net_profit > 0 THEN Rat(net_investment * WanYuan, net_profit) ELSE Inf

calculate_profitability(p) ==
    LET revenue_data == calculate_revenue(p)
        cost_data    == calculate_costs(p, revenue_data.total_revenue,
                                        revenue_data.annual_charging_kwh)
    IN  IF cost_data.raised
        THEN [raised |-> TRUE]
        ELSE LET ebitda == revenue_data.total_revenue
                             - (cost_data.electricity_cost + cost_data.maintenance_cost
                                + cost_data.labor_cost + cost_data.rent_cost
                                + cost_data.other_operating_cost)
                 net_profit     == ebitda - cost_data.annual_depreciation
                 net_investment == p.construction_cost - p.subsidy_per_station
             IN  [raised               |-> FALSE,
                  total_revenue        |-> revenue_data.total_revenue,
                  ebitda               |-> ebitda,
                  net_profit           |-> net_profit,
                  ebitda_margin        |-> Margin(ebitda, revenue_data.total_revenue),
                  net_margin           |-> Margin(net_profit, revenue_data.total_revenue),
                  payback_period_years |-> PaybackPeriod(net_investment, net_profit)]

---------------------------------------------------------------------------
(* ProjectFinanceModel: cash flows                                         *)

DefaultSchedule == <<100, 200, 300, 400>>

\* the body of "for year in range(self.params.project_years)"; year is 0-based
RECURSIVE CashFlowLoop(_, _, _, _, _)
CashFlowLoop(p, construction_schedule, year, cumulative_stations, acc) ==
    IF year >= p.project_years
    THEN [raised |-> FALSE, series |-> acc]
    ELSE LET building        == year < Len(construction_schedule)
             stations_built  == IF building THEN construction_schedule[year + 1] ELSE 0
             net_investment_per_station ==
                 (p.construction_cost - p.subsidy_per_station) * WanYuan
             investment      == IF building
                                THEN (0 - (stations_built * net_investment_per_station))
                                        \div CashUnit
                                ELSE 0
             cumulative      == cumulative_stations + stations_built
             single_station  == calculate_profitability(p)
         IN  IF cumulative > 0 /\ single_station.raised
             THEN [raised |-> TRUE]
             ELSE LET operating_fcf == IF cumulative > 0
                                       THEN (cumulative * single_station.ebitda) \div CashUnit
                                       ELSE 0
                  IN  CashFlowLoop(p, construction_schedule, year + 1, cumulative,
                                   Append(acc, investment + operating_fcf))

\* construction_schedule = None selects the default ramp
project_cash_flows(p, construction_schedule) ==
    CashFlowLoop(p,
                 IF construction_schedule.is_none THEN DefaultSchedule
                                                  ELSE construction_schedule.value,
                 0, 0, <<>>)

---------------------------------------------------------------------------
(* ProjectFinanceModel: NPV and IRR.  A rate r is the grid integer         *)
(* r * RateScale, so 1 + rate is (RateScale + m) / RateScale.              *)

\* (1 + rate) ** i leaves the float range, or is 0.0 and the division by it faults
PowRaises(m, i) ==
    LET b == Abs(Pow(RateScale + m, i))
        s == Pow(RateScale, i)
    IN  \/ 10 * b >= FloatMax * s
        \/ b * FloatMinInv < s

NpvRaises(cfs, m) == \E i \in 0 .. Len(cfs) - 1 : PowRaises(m, i)

\* sum(cf / ((1 + rate) ** i)) over the common denominator (1 + rate) ** (n - 1)
NpvDen(cfs, m) == IF Len(cfs) = 0 THEN 1 ELSE Pow(RateScale + m, Len(cfs) - 1)

RECURSIVE NpvNumFrom(_, _, _)
NpvNumFrom(cfs, m, i) ==
    IF i >= Len(cfs) THEN 0
    ELSE cfs[i + 1] * Pow(RateScale, i) * Pow(RateScale + m, Len(cfs) - 1 - i)
           + NpvNumFrom(cfs, m, i + 1)

NpvNum(cfs, m) == NpvNumFrom(cfs, m, 0)

\* abs(npv_mid) < tolerance
WithinTolerance(num, den) == Abs(num) <= (Abs(den) - 1) \div ToleranceInv

\* the npv of the series at the exact rate r = [num, den], as a sign-correct
\* numerator over a positive denominator (used by the properties)
RECURSIVE NpvAtRatFrom(_, _, _)
NpvAtRatFrom(cfs, r, i) ==
    IF i >= Len(cfs) THEN 0
    ELSE cfs[i + 1] * Pow(r.den, i) * Pow(r.den + r.num, Len(cfs) - 1 - i)
           + NpvAtRatFrom(cfs, r, i + 1)

\* calculate_npv(cash_flows, discount_rate): None selects params.discount_rate
calculate_npv(p, cfs, discount_rate) ==
    LET m == IF discount_rate.is_none THEN p.discount_rate ELSE discount_rate.value
    IN  IF NpvRaises(cfs, m)
        THEN [raised |-> TRUE]
        ELSE [raised |-> FALSE, value |-> Rat(NpvNum(cfs, m), NpvDen(cfs, m))]

RECURSIVE SumNegative(_)
SumNegative(cfs) ==
    IF cfs = <<>> THEN 0
    ELSE (IF Head(cfs) < 0 THEN Head(cfs) ELSE 0) + SumNegative(Tail(cfs))

RECURSIVE SumPositive(_)
SumPositive(cfs) ==
    IF cfs = <<>> THEN 0
    ELSE (IF Head(cfs) > 0 THEN Head(cfs) ELSE 0) + SumPositive(Tail(cfs))

\* the except branch of calculate_irr
IrrFallback(cfs) ==
    LET total_investment == SumNegative(cfs)
        total_return     == SumPositive(cfs)
    IN  IF total_investment # 0
        THEN Rat(total_return + total_investment, Abs(total_investment) * Len(cfs))
        ELSE None

\* the value returned for a midpoint of the grid
MidValue(m) == Rat(m, RateScale)

\* the interval is narrowed on the wrong side of the midpoint
BisectStep_WrongSide(cfs, lo, hi) ==
    LET m == (lo + hi) \div 2
    IN  IF NpvRaises(cfs, m)
        THEN [kind |-> "raise", mid |-> m, low |-> lo, high |-> hi]
        ELSE LET npv_mid == NpvNum(cfs, m)
             IN  IF WithinTolerance(npv_mid, NpvDen(cfs, m))
                 THEN [kind |-> "accept", mid |-> m, low |-> lo, high |-> hi]
                 ELSE IF npv_mid > 0
                      THEN [kind |-> "narrow", mid |-> m, low |-> lo, high |-> m]
                      ELSE [kind |-> "narrow", mid |-> m, low |-> m, high |-> hi]

\* one iteration of the bisection loop from the interval [lo, hi]
BisectStep(cfs, lo, hi) ==
    LET m == (lo + hi) \div 2
    IN  IF NpvRaises(cfs, m)
        THEN [kind |-> "raise", mid |-> m, low |-> lo, high |-> hi]
        ELSE LET npv_mid == NpvNum(cfs, m)
             IN  IF WithinTolerance(npv_mid, NpvDen(cfs, m))
                 THEN [kind |-> "accept", mid |-> m, low |-> lo, high |-> hi]
                 ELSE IF npv_mid > 0
                      THEN [kind |-> "narrow", mid |-> m, low |-> m, high |-> hi]
                      ELSE [kind |-> "narrow", mid |-> m, low |-> lo, high |-> m]

\* the loop after k finished iterations; m is the last midpoint.  An
\* iteration that leaves the interval as it was is repeated unchanged by
\* every later iteration, so the loop then ends at the cap with that midpoint
\* (IrrAgrees checks this against the stepwise loop).
RECURSIVE BisectLoop(_, _, _, _, _)
BisectLoop(cfs, lo, hi, m, k) ==
    IF k >= max_iterations
    THEN [how |-> "cap", value |-> MidValue(m)]
    ELSE LET st == BisectStep(cfs, lo, hi)
         IN  CASE st.kind = "raise"  -> [how |-> "fallback", value |-> IrrFallback(cfs)]
               [] st.kind = "accept" -> [how |-> "tolerance", value |-> MidValue(st.mid)]
               [] st.low = lo /\ st.high = hi
                                     -> [how |-> "cap", value |-> MidValue(st.mid)]
               [] OTHER              -> BisectLoop(cfs, st.low, st.high, st.mid, k + 1)

IrrOutcome(cfs) == BisectLoop(cfs, LowInit, HighInit, 0, 0)

calculate_irr(cfs) == IrrOutcome(cfs).value

---------------------------------------------------------------------------
(* ProjectFinanceModel: sensitivity_analysis                               *)

\* a filter that only asks for a defined IRR
Accepted_DefinedOnly(irr) == irr # None

\* irr is not None and 0 < irr < 5
Accepted(irr) == irr # None /\ 0 < irr.num /\ irr.num < 5 * irr.den

\* max(floor, base * (1 + normal(0, vol))): the normal factor is any real, so
\* for base # 0 the product is any real and the result any value >= floor
Perturbed(base, floor, choices) ==
    IF base = 0 THEN {floor} ELSE {v \in choices : v >= floor}

UtilChoices  == {1, 2}       \* 0.1 (the floor), 0.2
PriceChoices == {2, 9, 15}   \* 0.2 (the floor), 0.9, 1.5

\* original_params = {...}: the dict saved before the loop
SavedParams(p) ==
    [utilization_rate  |-> p.utilization_rate,
     price_spread      |-> p.price_spread,
     construction_cost |-> p.construction_cost,
     subsidy           |-> p.subsidy_per_station]

\* a restore loop that leaves price_spread out
Restore_SkipsPriceSpread(p, saved) ==
    [k \in (DOMAIN p) \cup (DOMAIN saved) |->
        IF k \in (DOMAIN saved) \ {"price_spread"} THEN saved[k] ELSE p[k]]

\* for key, value in original_params.items(): setattr(self.params, key, value)
Restore(p, saved) ==
    [k \in (DOMAIN p) \cup (DOMAIN saved) |->
        IF k \in DOMAIN saved THEN saved[k] ELSE p[k]]

\* a sample left in trial order
np_sort_unsorted(s) == s

\* np.sort: ascending insertion sort
RECURSIVE Insert(_, _)
Insert(x, s) ==
    IF s = <<>> THEN <<x>>
    ELSE IF RatLeq(x, Head(s)) THEN <<x>> \o s
         ELSE <<Head(s)>> \o Insert(x, Tail(s))

RECURSIVE np_sort(_)
np_sort(s) == IF s = <<>> THEN <<>> ELSE Insert(Head(s), np_sort(Tail(s)))

\* get_percentile(p) over sorted_results (0-based index, 1-based sequence)
get_percentile(sorted_results, p) ==
    LET n      == Len(sorted_results)
        index  == (n * p) \div 100
        index2 == IF index >= n THEN n - 1 ELSE index
    IN  sorted_results[index2 + 1]

Percentiles == {5, 25, 50, 75, 95}

\* np.mean(results_array > threshold), threshold = t / 100
ProbabilityAbove(sample, t) ==
    Rat(Cardinality({i \in 1 .. Len(sample) : 100 * sample[i].num > t * sample[i].den}),
        Len(sample))

\* base_irr or 0
OrZero(x) == IF x = None \/ x.num = 0 THEN Zero ELSE x

\* 1.0 if (base_irr and base_irr > t / 100) else 0.0
BaseProbability(base_irr, t) ==
    IF base_irr # None /\ base_irr.num # 0 /\ 100 * base_irr.num > t * base_irr.den
    THEN [num |-> 1, den |-> 1] ELSE Zero

\* the return value when len(results) == 0
BaseCaseSummary(base_irr) ==
    [op          |-> "sensitivity_analysis",
     raised      |-> FALSE,
     base_case   |-> TRUE,
     base_irr    |-> base_irr,
     mean_irr    |-> OrZero(base_irr),
     std_irr     |-> Zero,
     percentiles |-> [q \in Percentiles |-> OrZero(base_irr)],
     probability_above_10pct |-> BaseProbability(base_irr, 10),
     probability_above_15pct |-> BaseProbability(base_irr, 15)]

\* the return value for a non-empty sample (mean_irr and std_irr, a mean and
\* a square root over the sample, are not represented)
SampleSummary(sample) ==
    LET sorted_results == np_sort(sample)
    IN  [op          |-> "sensitivity_analysis",
         raised      |-> FALSE,
         base_case   |-> FALSE,
         sorted      |-> sorted_results,
         percentiles |-> [q \in Percentiles |-> get_percentile(sorted_results, q)],
         probability_above_10pct |-> ProbabilityAbove(sample, 10),
         probability_above_15pct |-> ProbabilityAbove(sample, 15)]

---------------------------------------------------------------------------
(* REITsModel                                                              *)

RatPositive(a) == a.num > 0
RatDiv(a, b)   == Rat(a.num * b.den, a.den * b.num)
RatScale(a, n, d) == Rat(a.num * n, a.den * d)

calculate_reits_valuation(p) ==
    LET single_station == calculate_profitability(p)
    IN  IF single_station.raised \/ p.reits_cap_rate = 0
        THEN [op |-> "calculate_reits_valuation", raised |-> TRUE]
        ELSE LET package_noi     == Rat(single_station.ebitda * p.reits_package_size, CashUnit)
                 reits_valuation == RatScale(package_noi, 1000, p.reits_cap_rate)
                 distribution_yield ==
                     IF RatPositive(reits_valuation)
                     THEN RatDiv(package_noi, reits_valuation) ELSE Zero
             IN  [op                    |-> "calculate_reits_valuation",
                  raised                |-> FALSE,
                  package_size_stations |-> p.reits_package_size,
                  annual_noi            |-> package_noi,
                  reits_valuation       |-> reits_valuation,
                  distribution_yield    |-> distribution_yield,
                  original_shares_value |-> RatScale(reits_valuation, 20, 100),
                  cash_proceeds         |-> RatScale(reits_valuation, 80, 100),
                  meets_distribution_requirement |->
                      RatLeq(Rat(p.reits_distribution_yield, 1000), distribution_yield)]

---------------------------------------------------------------------------
(* The parameter object after ModelParameters.__init__ and the inputs.     *)

BaseParams ==
    [utilization_rate         |-> 3,        \* 0.3
     price_spread             |-> 5,        \* 0.5
     gun_power                |-> 100,
     daily_hours              |-> 10,
     guns_per_station         |-> 10,
     operating_days           |-> 100,
     auxiliary_premium        |-> 0,
     electricity_price        |-> 4,        \* 0.4
     maintenance_per_kwh      |-> 0,
     labor_cost               |-> 120000,
     rent_cost                |-> 0,
     other_operating_cost     |-> 0,
     construction_cost        |-> 2,
     subsidy_per_station      |-> 1,
     depreciation_years       |-> 2,
     residual_value_rate      |-> 0,
     project_years            |-> MaxYears,
     discount_rate            |-> RateUnit, \* 0.1
     reits_package_size       |-> 20,
     reits_cap_rate           |-> 60,       \* 0.06
     reits_distribution_yield |-> 45]       \* 0.045

PriceSpreads      == {5, -4}            \* -0.4 makes total_revenue zero
CostPairs         == {<<2, 1>>, <<1, 1>>, <<13, 1>>}   \* construction_cost, subsidy_per_station
DepreciationYears == {0, 2}
LaborCosts        == {120000, 130000}
CapRates          == {0, 60}

ParamSets ==
    {[BaseParams EXCEPT !.price_spread        = ps,
                        !.construction_cost   = cp[1],
                        !.subsidy_per_station = cp[2],
                        !.depreciation_years  = dy,
                        !.labor_cost          = lc,
                        !.reits_cap_rate      = cr,
                        !.project_years       = py] :
        ps \in PriceSpreads, cp \in CostPairs, dy \in DepreciationYears,
        lc \in LaborCosts, cr \in CapRates, py \in 0 .. MaxYears}

\* construction schedules handed to project_cash_flows: none (the default),
\* empty, shorter than, equal to and longer than the horizon
Schedules ==
    {NoneArg, Some(<<>>), Some(<<1>>), Some(<<0, 2>>), Some(<<1, 0, 2>>),
     Some(<<1, 2, 0, 1, 1>>)}

\* discount rates handed to calculate_npv: none (params.discount_rate) and -1
DiscountRates == {NoneArg, Some(0 - RateScale)}

NoRet == [op |-> "none", raised |-> FALSE]

---------------------------------------------------------------------------
(* Specification Spec: a caller of the core on one parameter object.       *)

\* auto_refresh_loop has not been entered; the document is as it was written
RefreshInit ==
    /\ loop_pc = "initial"
    /\ mtime = 0
    /\ has_last_check_time = FALSE
    /\ last_check_time = 0
    /\ user_mods = 0
    /\ calc_runs = 0
    /\ pending = FALSE

Init ==
    /\ RefreshInit
    /\ params \in ParamSets
    /\ pc = "idle"
    /\ cash_flows = <<>>
    /\ ret = NoRet
    /\ n_simulations = 0
    /\ trial = 0
    /\ results = <<>>
    /\ original_params = SavedParams(params)
    /\ pre_call = params
    /\ low = LowInit
    /\ high = HighInit
    /\ mid = 0
    /\ iter = 0

IrrLocals == <<low, high, mid, iter>>
RefreshVars == <<loop_pc, mtime, has_last_check_time, last_check_time,
                 user_mods, calc_runs, pending>>
SweepVars == <<n_simulations, trial, results, original_params, pre_call>>

\* station.calculate_profitability()
CallProfitability ==
    /\ pc = "idle"
    /\ LET r == calculate_profitability(params)
       IN  ret' = [op |-> "calculate_profitability", raised |-> r.raised, result |-> r]
    /\ pc' = "done"
    /\ UNCHANGED <<params, cash_flows, SweepVars, IrrLocals, RefreshVars>>

\* project.project_cash_flows(construction_schedule)
CallCashFlows ==
    /\ pc = "idle"
    /\ \E schedule \in Schedules :
          LET r == project_cash_flows(params, schedule)
          IN  /\ ret' = [op |-> "project_cash_flows", raised |-> r.raised,
                         schedule |-> IF schedule.is_none THEN DefaultSchedule
                                                          ELSE schedule.value]
              /\ IF r.raised
                 THEN pc' = "done" /\ UNCHANGED cash_flows
                 ELSE pc' = "flows" /\ cash_flows' = r.series
    /\ UNCHANGED <<params, SweepVars, IrrLocals, RefreshVars>>

\* project.calculate_irr(cash_flows)
CallIrr ==
    /\ pc = "flows"
    /\ ret' = [op |-> "calculate_irr", raised |-> FALSE, value |-> calculate_irr(cash_flows)]
    /\ pc' = "done"
    /\ UNCHANGED <<params, cash_flows, SweepVars, IrrLocals, RefreshVars>>

\* project.calculate_npv(cash_flows, discount_rate)
CallNpv ==
    /\ pc = "flows"
    /\ \E discount_rate \in DiscountRates :
          LET r == calculate_npv(params, cash_flows, discount_rate)
          IN  ret' = [op |-> "calculate_npv", raised |-> r.raised, result |-> r]
    /\ pc' = "done"
    /\ UNCHANGED <<params, cash_flows, SweepVars, IrrLocals, RefreshVars>>

\* reits.calculate_reits_valuation()
CallReits ==
    /\ pc = "idle"
    /\ ret' = calculate_reits_valuation(params)
    /\ pc' = "done"
    /\ UNCHANGED <<params, cash_flows, SweepVars, IrrLocals, RefreshVars>>

\* sensitivity_analysis(n_simulations) up to the loop: factors, results = [],
\* original_params
StartSensitivity ==
    /\ pc = "idle"
    /\ \E n \in 0 .. MaxSims : n_simulations' = n
    /\ original_params' = SavedParams(params)
    /\ pre_call' = params
    /\ results' = <<>>
    /\ trial' = 0
    /\ pc' = "sweep"
    /\ UNCHANGED <<params, cash_flows, ret, IrrLocals, RefreshVars>>

\* one iteration of "for _ in range(n_simulations)"
Trial ==
    /\ pc = "sweep"
    /\ trial < n_simulations
    /\ \E u \in Perturbed(original_params.utilization_rate, UtilFloor, UtilChoices),
          s \in Perturbed(original_params.price_spread, PriceFloor, PriceChoices) :
          LET perturbed == [params EXCEPT !.utilization_rate = u, !.price_spread = s]
              flows     == project_cash_flows(perturbed, NoneArg)
          IN  /\ params' = perturbed
              /\ trial' = trial + 1
              /\ IF flows.raised
                 THEN /\ pc' = "raised"
                      /\ ret' = [op |-> "sensitivity_analysis", raised |-> TRUE,
                                 at |-> "trial"]
                      /\ UNCHANGED results
                 ELSE LET irr == calculate_irr(flows.series)
                      IN  /\ pc' = "sweep"
                          /\ ret' = [op |-> "trial", raised |-> FALSE, irr |-> irr]
                          /\ results' = IF Accepted(irr) THEN Append(results, irr)
                                                         ELSE results
    /\ UNCHANGED <<cash_flows, n_simulations, original_params, pre_call, IrrLocals, RefreshVars>>

\* after the loop: restore the parameters, then the statistics
Finish ==
    /\ pc = "sweep"
    /\ trial = n_simulations
    /\ LET restored == Restore(params, original_params)
       IN  /\ params' = restored
           /\ IF Len(results) = 0
              THEN LET base == project_cash_flows(restored, NoneArg)
                   IN  IF base.raised
                       THEN /\ pc' = "raised"
                            /\ ret' = [op |-> "sensitivity_analysis", raised |-> TRUE,
                                       at |-> "base_case"]
                       ELSE /\ pc' = "returned"
                            /\ ret' = BaseCaseSummary(calculate_irr(base.series))
              ELSE /\ pc' = "returned"
                   /\ ret' = SampleSummary(results)
    /\ UNCHANGED <<cash_flows, SweepVars, IrrLocals, RefreshVars>>

Next ==
    \/ CallProfitability
    \/ CallCashFlows
    \/ CallIrr
    \/ CallNpv
    \/ CallReits
    \/ StartSensitivity
    \/ Trial
    \/ Finish

Spec == Init /\ [][Next]_vars

---------------------------------------------------------------------------
(* Specification SpecIrr: calculate_irr, one loop iteration per step, on   *)
(* every series of at most MaxYears entries over CfChoices.                *)

CfChoices == {-2, -1, 0, 1, 3}

IrrInputs == UNION {[1 .. n -> CfChoices] : n \in 0 .. MaxYears}

InitIrr ==
    /\ RefreshInit
    /\ params = BaseParams
    /\ pc = "irr_loop"
    /\ cash_flows \in IrrInputs
    /\ ret = NoRet
    /\ n_simulations = 0
    /\ trial = 0
    /\ results = <<>>
    /\ original_params = SavedParams(params)
    /\ pre_call = params
    /\ low = LowInit
    /\ high = HighInit
    /\ mid = 0
    /\ iter = 0

IrrFrame == <<params, cash_flows, SweepVars>>

\* an iteration whose npv_function(mid) raises: the except branch returns
IrrRaise ==
    /\ pc = "irr_loop"
    /\ iter < max_iterations
    /\ LET st == BisectStep(cash_flows, low, high)
       IN  /\ st.kind = "raise"
           /\ mid' = st.mid
           /\ ret' = [op |-> "calculate_irr", raised |-> FALSE, how |-> "fallback",
                      value |-> IrrFallback(cash_flows)]
    /\ pc' = "irr_done"
    /\ UNCHANGED <<low, high, iter, IrrFrame, RefreshVars>>

\* an iteration with abs(npv_mid) < tolerance: return mid
IrrAccept ==
    /\ pc = "irr_loop"
    /\ iter < max_iterations
    /\ LET st == BisectStep(cash_flows, low, high)
       IN  /\ st.kind = "accept"
           /\ mid' = st.mid
           /\ ret' = [op |-> "calculate_irr", raised |-> FALSE, how |-> "tolerance",
                      value |-> MidValue(st.mid)]
    /\ pc' = "irr_done"
    /\ UNCHANGED <<low, high, iter, IrrFrame, RefreshVars>>

\* an iteration that narrows the interval
IrrNarrow ==
    /\ pc = "irr_loop"
    /\ iter < max_iterations
    /\ LET st == BisectStep(cash_flows, low, high)
       IN  /\ st.kind = "narrow"
           /\ mid' = st.mid
           /\ low' = st.low
           /\ high' = st.high
    /\ iter' = iter + 1
    /\ UNCHANGED <<pc, ret, IrrFrame, RefreshVars>>

\* the loop ran max_iterations times: return mid
IrrCap ==
    /\ pc = "irr_loop"
    /\ iter = max_iterations
    /\ ret' = [op |-> "calculate_irr", raised |-> FALSE, how |-> "cap",
               value |-> MidValue(mid)]
    /\ pc' = "irr_done"
    /\ UNCHANGED <<low, high, mid, iter, IrrFrame, RefreshVars>>

NextIrr ==
    \/ IrrRaise
    \/ IrrAccept
    \/ IrrNarrow
    \/ IrrCap

SpecIrr == InitIrr /\ [][NextIrr]_vars

\* the stepwise loop and the operator calculate_irr return the same
IrrAgrees ==
    pc = "irr_done" =>
        /\ ret.value = calculate_irr(cash_flows)
        /\ ret.how = IrrOutcome(cash_flows).how

---------------------------------------------------------------------------
(* Specification SpecRefresh: auto_refresh_loop polling the parameter      *)
(* document while a user edits it.  st_mtime values are only compared and  *)
(* copied, so times are counted from the last baseline: when               *)
(* check_file_modified stores modified_time in last_check_time, both are   *)
(* re-expressed as 0, and every later write of the document moves mtime    *)
(* one tick further.  The loop runs until interrupted, so its steps are    *)
(* weakly fair; the user is under no obligation to edit.                   *)

RefreshFrame == <<params, pc, cash_flows, ret, SweepVars, IrrLocals>>

Min(a, b) == IF a < b THEN a ELSE b

\* a time counted from the baseline origin
Rebase(t, origin) == t - origin

\* a write of the document, by the user's editor or by update_markdown_results
Touch(t) == t + 1

\* check_file_modified(): the value returned and the attribute afterwards
check_file_modified(modified_time, has_attr, last) ==
    IF ~has_attr
    THEN [returns |-> FALSE, has_last_check_time |-> TRUE, last_check_time |-> modified_time]
    ELSE IF modified_time > last
         THEN [returns |-> TRUE, has_last_check_time |-> TRUE, last_check_time |-> modified_time]
         ELSE [returns |-> FALSE, has_last_check_time |-> TRUE, last_check_time |-> last]

\* run_calculation() starts the subprocess, which reads the parameters
StartRun ==
    /\ loop_pc \in {"initial", "detected"}
    /\ loop_pc' = "running"
    /\ calc_runs' = Min(calc_runs + 1, MaxRuns)
    /\ pending' = FALSE
    /\ UNCHANGED <<mtime, has_last_check_time, last_check_time, user_mods, RefreshFrame>>

\* the subprocess ends: main() wrote the results back into the document
\* (returncode 0), or it failed before update_markdown_results
EndRun ==
    /\ loop_pc = "running"
    /\ \E written \in BOOLEAN : mtime' = IF written THEN Touch(mtime) ELSE mtime
    /\ loop_pc' = "sleep"
    /\ UNCHANGED <<has_last_check_time, last_check_time, user_mods, calc_runs, pending,
                   RefreshFrame>>

\* time.sleep(2); if check_file_modified(): ...
Poll ==
    /\ loop_pc = "sleep"
    /\ LET r == check_file_modified(mtime, has_last_check_time, last_check_time)
       IN  /\ has_last_check_time' = r.has_last_check_time
           /\ last_check_time' = Rebase(r.last_check_time, r.last_check_time)
           /\ mtime' = Rebase(mtime, r.last_check_time)
           /\ loop_pc' = IF r.returns THEN "detected" ELSE "sleep"
    /\ UNCHANGED <<user_mods, calc_runs, pending, RefreshFrame>>

\* the user saves the document while the loop is in its initial calculation
\* or later
UserModify ==
    /\ loop_pc # "initial"
    /\ user_mods < MaxMods
    /\ user_mods' = user_mods + 1
    /\ mtime' = Touch(mtime)
    /\ pending' = TRUE
    /\ UNCHANGED <<loop_pc, has_last_check_time, last_check_time, calc_runs, RefreshFrame>>

LoopStep == StartRun \/ EndRun \/ Poll

NextRefresh ==
    \/ StartRun
    \/ EndRun
    \/ Poll
    \/ UserModify

InitRefresh ==
    /\ RefreshInit
    /\ params = BaseParams
    /\ pc = "idle"
    /\ cash_flows = <<>>
    /\ ret = NoRet
    /\ n_simulations = 0
    /\ trial = 0
    /\ results = <<>>
    /\ original_params = SavedParams(params)
    /\ pre_call = params
    /\ low = LowInit
    /\ high = HighInit
    /\ mid = 0
    /\ iter = 0

SpecRefresh == InitRefresh /\ [][NextRefresh]_vars /\ WF_vars(LoopStep)

---------------------------------------------------------------------------
(* Properties.                                                             *)

SweepExited == pc \in {"returned", "raised"} /\ ret.op = "sensitivity_analysis"

PerturbedFieldsRestored ==
    /\ params.utilization_rate = pre_call.utilization_rate
    /\ params.price_spread = pre_call.price_spread

\* C1: when sensitivity_analysis returns, utilization_rate and price_spread
\* hold the values they had immediately before the call, for every trial
\* count >= 0.
C1_RestoredOnReturn == pc = "returned" => PerturbedFieldsRestored

\* C1 witness: a sweep of at least one trial, each of which wrote values other
\* than the base values into both fields, has returned.
C1_Witness ==
    /\ pc = "returned"
    /\ trial >= 1
    /\ pre_call.utilization_rate \notin UtilChoices
    /\ pre_call.price_spread \notin PriceChoices

\* C2 (as claimed): on every exit from sensitivity_analysis, by return or by
\* an exception of a trial's cash-flow computation, both perturbed fields
\* equal their pre-sweep values.
C2_RestoredOnEveryExit == SweepExited => PerturbedFieldsRestored

AllPositive(cfs) == \A i \in 1 .. Len(cfs) : cfs[i] > 0
AllNegative(cfs) == \A i \in 1 .. Len(cfs) : cfs[i] < 0
AllZero(cfs)     == \A i \in 1 .. Len(cfs) : cfs[i] = 0
Degenerate(cfs)  == AllPositive(cfs) \/ AllNegative(cfs) \/ AllZero(cfs)

\* C3 (as claimed): for a degenerate series (all entries of one sign, all
\* zero, or empty) calculate_irr returns no bisection midpoint: it returns
\* (total positive + total negative) / |total negative| / periods when the
\* total negative flow is nonzero and None when it is zero.
C3_DegenerateFallsBack ==
    (pc = "irr_done" /\ Degenerate(cash_flows)) =>
        /\ ret.how = "fallback"
        /\ ret.value = IF SumNegative(cash_flows) # 0
                       THEN Rat(SumPositive(cash_flows) + SumNegative(cash_flows),
                                Abs(SumNegative(cash_flows)) * Len(cash_flows))
                       ELSE None

\* |npv(cfs, r)| < 1e-6 for a defined rate r, year index 0 undiscounted
NpvBelowTolerance(cfs, r) ==
    LET num == NpvAtRatFrom(cfs, r, 0)
        den == IF Len(cfs) = 0 THEN 1 ELSE Pow(r.den + r.num, Len(cfs) - 1)
    IN  ToleranceInv * Abs(num) < Abs(den)

\* C4 (as claimed): for every series for which calculate_irr returns a
\* defined rate r, |NPV at r| is below the tolerance 1e-6, the iteration cap
\* included.
C4_NpvBelowTolerance ==
    (pc = "irr_done" /\ ret.value # None) => NpvBelowTolerance(cash_flows, ret.value)

\* the base-case IRR of the restored parameters
BaseIrr == calculate_irr(project_cash_flows(params, NoneArg).series)

\* C5 (as claimed): when the loop has finished with zero accepted trials,
\* sensitivity_analysis does not raise and mean_irr and the five percentiles
\* equal the base-case IRR (None when it is undefined), std_irr is 0 and each
\* threshold probability is 1 if that IRR exceeds the threshold, else 0.
C5_BaseCaseSummary ==
    (SweepExited /\ Len(results) = 0 /\ (ret.raised => ret.at = "base_case")) =>
        /\ ~ret.raised
        /\ ret.mean_irr = BaseIrr
        /\ \A q \in Percentiles : ret.percentiles[q] = BaseIrr
        /\ ret.std_irr = Zero
        /\ ret.probability_above_10pct =
              (IF BaseIrr # None /\ RatLess([num |-> 10, den |-> 100], BaseIrr)
               THEN [num |-> 1, den |-> 1] ELSE Zero)
        /\ ret.probability_above_15pct =
              (IF BaseIrr # None /\ RatLess([num |-> 15, den |-> 100], BaseIrr)
               THEN [num |-> 1, den |-> 1] ELSE Zero)

InOpenRange(x) == x.den > 0 /\ 0 < x.num /\ x.num < 5 * x.den

SampleAdmissible ==
    /\ \A i \in 1 .. Len(results) : InOpenRange(results[i])
    /\ Len(results) <= trial

\* a step of the loop that computed the IRR of a trial
TrialKeepsSample ==
    (trial' = trial + 1 /\ ret'.op = "trial") =>
        /\ pc' = "sweep"
        /\ results' = IF InOpenRange(ret'.irr) THEN Append(results, ret'.irr)
                                               ELSE results

\* C6: at every point of the sweep every element of the accepted sample is a
\* defined IRR strictly between 0 and 5 and the sample is no longer than the
\* number of trials executed; a trial whose IRR is undefined, <= 0 or >= 5
\* leaves the sample unchanged and the sweep running.
C6_SampleAdmissible == [] SampleAdmissible /\ [][TrialKeepsSample]_vars

\* C6 witness: a sweep that has accepted one trial and then rejected one
\* whose IRR was 5 or more.
C6_Witness ==
    /\ pc = "sweep"
    /\ trial = 2
    /\ Len(results) = 1
    /\ ret.op = "trial"
    /\ ret.irr # None
    /\ ret.irr.num >= 5 * ret.irr.den

\* the number of elements of the sample strictly below / not above v
CountLess(sample, v) == Cardinality({i \in 1 .. Len(sample) : RatLess(sample[i], v)})
CountLeq(sample, v)  == Cardinality({i \in 1 .. Len(sample) : RatLeq(sample[i], v)})

\* v is the element at 0-based index k of the ascending order of the sample
IsOrderStatistic(sample, k, v) ==
    /\ \E i \in 1 .. Len(sample) : sample[i] = v
    /\ CountLess(sample, v) <= k
    /\ CountLeq(sample, v) >= k + 1

RankIndex(n, q) == IF (n * q) \div 100 <= n - 1 THEN (n * q) \div 100 ELSE n - 1

\* C7: for a non-empty accepted sample of size n, the reported percentile q
\* is the element at index min(floor(n * q / 100), n - 1) of the sample in
\* ascending order, so it is a member of the sample and the five percentiles
\* are non-decreasing.
C7_PercentileLadder ==
    (pc = "returned" /\ Len(results) > 0) =>
        /\ \A q \in Percentiles :
              IsOrderStatistic(results, RankIndex(Len(results), q), ret.percentiles[q])
        /\ RatLeq(ret.percentiles[5], ret.percentiles[25])
        /\ RatLeq(ret.percentiles[25], ret.percentiles[50])
        /\ RatLeq(ret.percentiles[50], ret.percentiles[75])
        /\ RatLeq(ret.percentiles[75], ret.percentiles[95])

\* C7 witness: a returned summary over two accepted trials that arrived in
\* descending order, whose 5% and 95% percentiles differ.
C7_Witness ==
    /\ pc = "returned"
    /\ Len(results) = 2
    /\ RatLess(results[2], results[1])
    /\ ret.percentiles[5] # ret.percentiles[95]

\* the stations built in 0-based year y and commissioned through year y
BuiltIn(schedule, y) == IF y < Len(schedule) THEN schedule[y + 1] ELSE 0

RECURSIVE CommissionedThrough(_, _)
CommissionedThrough(schedule, y) ==
    IF y < 0 THEN 0 ELSE BuiltIn(schedule, y) + CommissionedThrough(schedule, y - 1)

\* C8 (as claimed): project_cash_flows returns exactly project_years entries
\* for any construction schedule; entry y is -(stations built in year y x net
\* per-station investment) + (stations commissioned through year y) x
\* single-station EBITDA.
C8_CashFlowSeries ==
    ret.op = "project_cash_flows" =>
        /\ ~ret.raised
        /\ Len(cash_flows) = params.project_years
        /\ \A y \in 0 .. params.project_years - 1 :
              cash_flows[y + 1] * CashUnit =
                 0 - BuiltIn(ret.schedule, y)
                       * (params.construction_cost - params.subsidy_per_station) * WanYuan
                 + (IF CommissionedThrough(ret.schedule, y) = 0 THEN 0
                    ELSE CommissionedThrough(ret.schedule, y)
                            * calculate_profitability(params).ebitda)

\* C9 (as claimed): calculate_profitability returns payback +infinity when
\* net_profit <= 0 and (construction_cost - subsidy_per_station) /
\* (net_profit / 10000) otherwise, and whenever total_revenue is zero it
\* returns both margins 0 without a division fault.
C9_ProfitabilityGuards ==
    ret.op = "calculate_profitability" =>
        /\ ~ret.raised =>
              ret.result.payback_period_years =
                 (IF ret.result.net_profit <= 0
                  THEN Inf
                  ELSE Rat((params.construction_cost - params.subsidy_per_station) * WanYuan,
                           ret.result.net_profit))
        /\ calculate_revenue(params).total_revenue = 0 =>
              /\ ~ret.raised
              /\ ret.result.ebitda_margin = Zero
              /\ ret.result.net_margin = Zero

\* C10 (as claimed): no core operation ends in a fatal error: every finished
\* call of calculate_profitability, project_cash_flows, calculate_irr,
\* calculate_npv, sensitivity_analysis and calculate_reits_valuation returned.
C10_NoFatalError == ~ret.raised

\* C11 (as claimed): for every parameter set calculate_reits_valuation returns
\* a distribution_yield identical to reits_cap_rate, so that
\* meets_distribution_requirement is true exactly when reits_cap_rate >=
\* reits_distribution_yield, whatever the station EBITDA and the package size.
C11_YieldIsCapRate ==
    ret.op = "calculate_reits_valuation" =>
        /\ ~ret.raised
        /\ ret.distribution_yield = Rat(params.reits_cap_rate, 1000)
        /\ ret.meets_distribution_requirement =
              (params.reits_cap_rate >= params.reits_distribution_yield)

\* C12 (as claimed): every modification of the parameter document made after
\* auto_refresh_loop started its initial calculation is eventually followed by
\* the start of a new run of the calculation, as long as the loop keeps
\* polling, a modification made before the first check_file_modified included.
C12_ModificationLeadsToRun == pending ~> ~pending

\* a poll that reports a change
Detects == loop_pc = "sleep" /\ loop_pc' = "detected"

\* C14 (as claimed): check_file_modified reports a change only when the user
\* modified the document and no run has started since (the write-back of a
\* run does not count), so once the user stops modifying the document the
\* loop stops re-running the calculation and stays in its sleep/check cycle.
C14_OnlyUserTriggers == [][Detects => pending]_vars /\ <>[](loop_pc = "sleep")

\* the bisection interval and midpoint stay inside [-0.9, 1.0], at most
\* max_iterations iterations have run, and a rate returned by the loop lies in
\* [-0.9, 1.0]
BisectionBounded ==
    /\ iter <= max_iterations
    /\ LowInit <= low /\ low <= mid /\ mid <= high /\ high <= HighInit
    /\ (pc = "irr_done" /\ ret.how \in {"tolerance", "cap"}) =>
          /\ RatLeq(Rat(-9, 10), ret.value)
          /\ RatLeq(ret.value, Rat(1, 1))

\* an iteration that does not accept moves low up to the midpoint when the
\* NPV there is positive and high down to it otherwise, which halves the
\* interval (to within the one grid unit the midpoint is rounded by); after
\* max_iterations iterations the only step is the return
BisectionStep ==
    /\ iter' = iter + 1 =>
          /\ 2 * mid' <= low + high /\ low + high <= 2 * mid' + 1
          /\ IF NpvAtRatFrom(cash_flows, MidValue(mid'), 0) > 0
             THEN low' = mid' /\ high' = high
             ELSE high' = mid' /\ low' = low
          /\ 2 * (high' - low') <= (high - low) + 1
    /\ (pc = "irr_loop" /\ iter = max_iterations) => pc' = "irr_done"

\* C13: calculate_irr runs at most 100 bisection iterations and then returns;
\* throughout the loop -0.9 <= low <= mid <= high <= 1.0, each non-accepting
\* iteration halves [low, high] (low moves up when NPV(mid) > 0, high moves
\* down otherwise), and every rate returned from the bisection, by tolerance
\* or at the iteration cap, lies in [-0.9, 1.0].
C13_BisectionBounded == [] BisectionBounded /\ [][BisectionStep]_vars

\* C13 witness: the loop returned its last midpoint at the iteration cap
\* after both ends of the interval had moved.
C13_Witness ==
    /\ pc = "irr_done"
    /\ ret.how = "cap"
    /\ iter = max_iterations
    /\ low > LowInit
    /\ high < HighInit

\* C15 (as claimed): sensitivity_analysis writes no field of the parameter
\* object other than utilization_rate and price_spread and creates none:
\* during the sweep construction_cost and subsidy_per_station equal their
\* pre-call values, and after the call the object has exactly the fields it
\* had before, each with its pre-call value.
C15_FrameOfSweep ==
    /\ pc \in {"sweep", "returned", "raised"} =>
          /\ params.construction_cost = pre_call.construction_cost
          /\ params.subsidy_per_station = pre_call.subsidy_per_station
    /\ pc = "returned" =>
          /\ DOMAIN params = DOMAIN pre_call
          /\ params = pre_call

=============================================================================
